---- MODULE Spec2Model ----
(***************************************************************************)
(* BLI::SmallVector<T, N> (source/blender/blenlib/BLI_small_vector.hpp).   *)
(*                                                                         *)
(* The model keeps the raw memory the container manages: every slot of     *)
(* every inline buffer and of every heap region is "raw" (no object),      *)
(* "live" (a constructed T holding a value) or "moved" (a constructed T    *)
(* that has been moved from and still awaits its destructor).  Pointers    *)
(* are integers: 0 is nullptr, -v is the inline buffer of container v and  *)
(* r > 0 is heap region r.  Each member function is an operator on a       *)
(* memory record S, written statement by statement; each public operation  *)
(* is one action that runs the whole member function.                      *)
(***************************************************************************)
EXTENDS Integers, Sequences, FiniteSets, TLC

\* Template parameter N of SmallVector<T, N> (inline slots).
N == 1
\* Largest number of elements the containers hold together.
MaxElems == 3
\* Largest argument passed to reserve().
MaxReserve == 2
\* Longest initializer list.
MaxInit == 2

\* The container objects the program holds.
Vec == {1, 2}
\* Element values; 0 is the value of T().  Two values tell every order apart.
Val == {0, 1}
\* Heap regions malloc can hand out: one per container and one for a growth
\* in progress.
Region == 1..(Cardinality(Vec) + 1)
Null == 0

VARIABLES
  alive,           \* alive[v]: the object v is within its lifetime
  m_elements,      \* T *m_elements
  m_size,          \* uint m_size
  m_capacity,      \* uint m_capacity
  m_small_buffer,  \* char m_small_buffer[sizeof(T) * N], as N slots
  heap,            \* heap[r]: [alloc, slots] of region r
  faults,          \* memory faults and leaks of the last operation
  crashed,         \* the process has stopped on a fault
  ghost,           \* per container: the calls made on it since its construction
  watch,           \* the member function whose calls are recorded, or "none"
  call             \* the last call, when it was a call of the watched function

vars == <<alive, m_elements, m_size, m_capacity, m_small_buffer, heap,
          faults, crashed, ghost, watch, call>>

----------------------------------------------------------------------------
\* Raw memory

Raw == [st |-> "raw", val |-> 0]
Live(x) == [st |-> "live", val |-> x]
MovedFrom == [st |-> "moved", val |-> 0]

RawSlots(n) == [i \in 1..n |-> Raw]
FreeRegion == [alloc |-> FALSE, slots |-> <<>>]

ZeroEv == [moves |-> 0, copies |-> 0, dtors |-> 0, mallocs |-> 0, frees |-> 0]

RECURSIVE SumOver(_, _)
SumOver(f, D) ==
  IF D = {} THEN 0
  ELSE LET d == CHOOSE d \in D : TRUE IN f[d] + SumOver(f, D \ {d})

\* The containers of memory S that hold storage, and their elements.
Holding(S) == {v \in DOMAIN S.el : S.el[v] # 0}
Total(S) == SumOver(S.sz, Holding(S))

\* The bound on the lengths explored.
WithinBounds(S) == Total(S) <= MaxElems

\* The memory the member functions work on; log is the sequence of
\* allocations, constructions, destructions and releases of the call so far.
Cur == [el |-> m_elements, sz |-> m_size, cap |-> m_capacity,
        sb |-> m_small_buffer, hp |-> heap, errs |-> {}, ev |-> ZeroEv,
        log |-> <<>>]

Fault(S, e) == [S EXCEPT !.errs = @ \cup {e}]
Count(S, k) == [S EXCEPT !.ev[k] = @ + 1]
\* What happened (k) at p + i.
Log(S, k, p, i) == [S EXCEPT !.log = Append(@, <<k, p, i>>)]

\* The slots addressable through pointer p.
Storage(S, p) ==
  IF p < 0 THEN S.sb[-p]
  ELSE IF p > 0 /\ S.hp[p].alloc THEN S.hp[p].slots
  ELSE <<>>

\* What dereferencing p + i runs into.
PtrFault(S, p, i) ==
  IF p = Null THEN "null_deref"
  ELSE IF p > 0 /\ ~S.hp[p].alloc THEN "use_after_free"
  ELSE IF i < 0 \/ i >= Len(Storage(S, p)) THEN "out_of_bounds"
  ELSE "ok"

load(S, p, i) == Storage(S, p)[i + 1]

store(S, p, i, slot) ==
  IF p < 0 THEN [S EXCEPT !.sb[-p][i + 1] = slot]
  ELSE [S EXCEPT !.hp[p].slots[i + 1] = slot]

\* Placement construction of a T with value x at p + i.
construct_at(S, p, i, x, kind) ==
  IF PtrFault(S, p, i) # "ok" THEN Fault(S, PtrFault(S, p, i))
  ELSE LET S1 == IF load(S, p, i).st # "raw"
                 THEN Fault(S, "construct_over_constructed") ELSE S
       IN Log(Count(store(S1, p, i, Live(x)), kind), kind, p, i)

\* Assignment to the T at p + i.
assign_at(S, p, i, x) ==
  IF PtrFault(S, p, i) # "ok" THEN Fault(S, PtrFault(S, p, i))
  ELSE LET S1 == IF load(S, p, i).st = "raw"
                 THEN Fault(S, "assign_to_unconstructed") ELSE S
       IN store(S1, p, i, Live(x))

\* Reading the T at p + i: the value, and the fault if there is no T there.
read_fault(S, p, i) ==
  IF PtrFault(S, p, i) # "ok" THEN PtrFault(S, p, i)
  ELSE IF load(S, p, i).st = "raw" THEN "read_unconstructed"
  ELSE "ok"

read_val(S, p, i) == IF PtrFault(S, p, i) = "ok" THEN load(S, p, i).val ELSE 0

\* std::uninitialized_copy(src, src + n, dst), through move iterators when
\* move is TRUE; i is the position the loop has reached.
RECURSIVE uninitialized_copy(_, _, _, _, _, _)
uninitialized_copy(S, src, dst, n, move, i) ==
  IF i >= n THEN S
  ELSE LET f == read_fault(S, src, i)
           S1 == IF f # "ok" THEN Fault(S, f) ELSE S
           S2 == construct_at(S1, dst, i, read_val(S, src, i),
                              IF move THEN "moves" ELSE "copies")
           S3 == IF move /\ f = "ok"
                 THEN Log(store(S2, src, i, MovedFrom), "moved_from", src, i)
                 ELSE S2
       IN uninitialized_copy(S3, src, dst, n, move, i + 1)

\* The region std::malloc returns: the lowest free one.
NextFree(S) ==
  CHOOSE r \in Region : ~S.hp[r].alloc /\ \A q \in Region : q < r => S.hp[q].alloc

\* std::malloc(sizeof(T) * n) returning region r, or Null on failure.
malloc(S, r, n) ==
  IF r = Null THEN S
  ELSE Log(Count([S EXCEPT !.hp[r] = [alloc |-> TRUE, slots |-> RawSlots(n)]],
                 "mallocs"), "mallocs", r, n)

Constructed(slots) == {i \in DOMAIN slots : slots[i].st # "raw"}

\* std::free(p)
free(S, p) ==
  IF p = Null THEN S
  ELSE IF p < 0 THEN Fault(S, "free_non_heap")
  ELSE IF ~S.hp[p].alloc THEN Fault(S, "double_free")
  ELSE LET S1 == IF Constructed(S.hp[p].slots) # {} THEN Fault(S, "leak") ELSE S
       IN Log(Count([S1 EXCEPT !.hp[p] = FreeRegion], "frees"), "frees", p, 0)

----------------------------------------------------------------------------
\* Private member functions

small_buffer(v) == -v

is_small(S, v) == S.el[v] = small_buffer(v)

\* this->element_ptr(index)->~T()
destruct_element(S, v, index) ==
  LET p == S.el[v] IN
  IF PtrFault(S, p, index) # "ok" THEN Fault(S, PtrFault(S, p, index))
  ELSE LET S1 == IF load(S, p, index).st = "raw"
                 THEN Fault(S, "destruct_unconstructed") ELSE S
       IN Log(Count(store(S1, p, index, Raw), "dtors"), "dtors", p, index)

RECURSIVE destruct_loop(_, _, _)
destruct_loop(S, v, i) ==
  IF i >= S.sz[v] THEN S
  ELSE destruct_loop(destruct_element(S, v, i), v, i + 1)

destruct_elements_but_keep_memory(S, v) == destruct_loop(S, v, 0)

destruct_elements_and_free_memory(S, v) ==
  LET S1 == destruct_elements_but_keep_memory(S, v) IN
  IF ~is_small(S1, v)
  THEN IF S1.el[v] # Null THEN free(S1, S1.el[v]) ELSE S1
  ELSE S1

\* grow without its early return.
grow_unguarded(S, v, min_capacity, ok) ==
  LET S1 == [S EXCEPT !.cap[v] = min_capacity]
      new_array == IF ok THEN NextFree(S1) ELSE Null
      S2 == malloc(S1, new_array, S1.cap[v])
      S3 == uninitialized_copy(S2, S2.el[v], new_array, S2.sz[v], TRUE, 0)
      S4 == destruct_elements_but_keep_memory(S3, v)
      S5 == IF ~is_small(S4, v) THEN free(S4, S4.el[v]) ELSE S4
  IN [S5 EXCEPT !.el[v] = new_array]

\* grow without m_capacity = min_capacity.
grow_keeps_capacity(S, v, min_capacity, ok) ==
  IF S.cap[v] >= min_capacity THEN S
  ELSE LET new_array == IF ok THEN NextFree(S) ELSE Null
           S2 == malloc(S, new_array, min_capacity)
           S3 == uninitialized_copy(S2, S2.el[v], new_array, S2.sz[v], TRUE, 0)
           S4 == destruct_elements_but_keep_memory(S3, v)
           S5 == IF ~is_small(S4, v) THEN free(S4, S4.el[v]) ELSE S4
       IN [S5 EXCEPT !.el[v] = new_array]

\* ok: whether std::malloc succeeds.  (uint is 32 bits wide; the lengths and
\* capacities explored stay far below 2^31, where m_capacity * 2 would wrap.)
\* grow destructing and releasing the old storage before it relocates.
grow_tears_down_first(S, v, min_capacity, ok) ==
  IF S.cap[v] >= min_capacity THEN S
  ELSE LET S1 == [S EXCEPT !.cap[v] = min_capacity]
           new_array == IF ok THEN NextFree(S1) ELSE Null
           S2 == malloc(S1, new_array, S1.cap[v])
           S3 == destruct_elements_but_keep_memory(S2, v)
           S4 == IF ~is_small(S3, v) THEN free(S3, S3.el[v]) ELSE S3
           S5 == uninitialized_copy(S4, S4.el[v], new_array, S4.sz[v], TRUE, 0)
       IN [S5 EXCEPT !.el[v] = new_array]

grow(S, v, min_capacity, ok) ==
  IF S.cap[v] >= min_capacity THEN S
  ELSE LET S1 == [S EXCEPT !.cap[v] = min_capacity]
           new_array == IF ok THEN NextFree(S1) ELSE Null
           S2 == malloc(S1, new_array, S1.cap[v])
           S3 == uninitialized_copy(S2, S2.el[v], new_array, S2.sz[v], TRUE, 0)
           S4 == destruct_elements_but_keep_memory(S3, v)
           S5 == IF ~is_small(S4, v) THEN free(S4, S4.el[v]) ELSE S4
       IN [S5 EXCEPT !.el[v] = new_array]

Max(a, b) == IF a >= b THEN a ELSE b

\* ensure_space_for_one testing m_size > m_capacity.
ensure_space_for_one_late(S, v, ok) ==
  IF S.sz[v] > S.cap[v]
  THEN grow(S, v, Max(S.cap[v] * 2, 1), ok)
  ELSE S

\* ensure_space_for_one growing to exactly one more slot.
ensure_space_for_one_exact(S, v, ok) ==
  IF S.sz[v] >= S.cap[v]
  THEN grow(S, v, S.sz[v] + 1, ok)
  ELSE S

ensure_space_for_one(S, v, ok) ==
  IF S.sz[v] >= S.cap[v]
  THEN grow(S, v, Max(S.cap[v] * 2, 1), ok)
  ELSE S

\* copy_from_other always copying into the inline buffer.
copy_from_other_inline(S, v, o, ok) ==
  LET S2 == [S EXCEPT !.el[v] = small_buffer(v)]
      S3 == uninitialized_copy(S2, S2.el[o], S2.el[v], S2.sz[o], FALSE, 0)
      S4 == [S3 EXCEPT !.cap[v] = S3.cap[o]]
  IN [S4 EXCEPT !.sz[v] = S4.sz[o]]

\* copy_from_other taking the other's pointer instead of allocating.
copy_from_other_shallow(S, v, o, ok) ==
  LET p == IF is_small(S, o) THEN small_buffer(v) ELSE S.el[o]
      S2 == [S EXCEPT !.el[v] = p]
      S3 == IF is_small(S, o)
            THEN uninitialized_copy(S2, S2.el[o], S2.el[v], S2.sz[o], FALSE, 0)
            ELSE S2
      S4 == [S3 EXCEPT !.cap[v] = S3.cap[o]]
  IN [S4 EXCEPT !.sz[v] = S4.sz[o]]

copy_from_other(S, v, o, ok) ==
  LET p == IF is_small(S, o) THEN small_buffer(v)
           ELSE IF ok THEN NextFree(S) ELSE Null
      S1 == IF is_small(S, o) THEN S ELSE malloc(S, p, S.cap[o])
      S2 == [S1 EXCEPT !.el[v] = p]
      S3 == uninitialized_copy(S2, S2.el[o], S2.el[v], S2.sz[o], FALSE, 0)
      S4 == [S3 EXCEPT !.cap[v] = S3.cap[o]]
  IN [S4 EXCEPT !.sz[v] = S4.sz[o]]

\* steal_from_other moving element by element whatever the other's mode.
steal_from_other_elementwise(S, v, o) ==
  LET S1 == [uninitialized_copy(S, S.el[o], small_buffer(v), S.sz[o], TRUE, 0)
               EXCEPT !.el[v] = small_buffer(v)]
      S2 == [S1 EXCEPT !.cap[v] = S1.cap[o]]
      S3 == [S2 EXCEPT !.sz[v] = S2.sz[o]]
  IN [S3 EXCEPT !.el[o] = Null]

\* steal_from_other leaving the other's pointer in place.
steal_from_other_shared(S, v, o) ==
  LET S1 == IF is_small(S, o)
            THEN [uninitialized_copy(S, S.el[o], small_buffer(v), S.sz[o], TRUE, 0)
                    EXCEPT !.el[v] = small_buffer(v)]
            ELSE [S EXCEPT !.el[v] = S.el[o]]
      S2 == [S1 EXCEPT !.cap[v] = S1.cap[o]]
  IN [S2 EXCEPT !.sz[v] = S2.sz[o]]

steal_from_other(S, v, o) ==
  LET S1 == IF is_small(S, o)
            THEN [uninitialized_copy(S, S.el[o], small_buffer(v), S.sz[o], TRUE, 0)
                    EXCEPT !.el[v] = small_buffer(v)]
            ELSE [S EXCEPT !.el[v] = S.el[o]]
      S2 == [S1 EXCEPT !.cap[v] = S1.cap[o]]
      S3 == [S2 EXCEPT !.sz[v] = S2.sz[o]]
  IN [S3 EXCEPT !.el[o] = Null]

----------------------------------------------------------------------------
\* Assertions and the range checks they make

\* BLI_assert(cond) in the member function func: execution halts when cond is
\* false.  (BLI_utildefines.h; modelled as the abort-on-false check the
\* design describes.)
BLI_assert(S, cond, func) ==
  IF cond THEN S ELSE Fault(S, func)

AssertFaults ==
  {"BLI_assert in remove_last", "BLI_assert in remove_and_reorder",
   "BLI_assert in operator[]"}

\* Execution of the member function has stopped in BLI_assert.
Aborted(S) == S.errs \cap AssertFaults # {}

\* empty(): size() == 0
empty(S, v) == S.sz[v] = 0

\* The uint an int argument converts to: a negative int wraps to a value
\* above every length.  (The conversion is modulo 2^32; the model's integers
\* end at 2^31 - 1, so the wrapped value is kept modulo 2^31, still above
\* every length explored.)
ToUint(i) == IF i < 0 THEN (2147483647 + i) + 1 ELSE i

\* is_index_in_range testing index <= size().
is_index_in_range_inclusive(S, v, index) == index >= 0 /\ index <= S.sz[v]

\* is_index_in_range(uint index)
is_index_in_range(S, v, index) == index >= 0 /\ index < S.sz[v]

----------------------------------------------------------------------------
\* Public member functions, as operators on the memory record

\* SmallVector(): the member initialisers and the constructor body.
construct_default(S, v) ==
  [S EXCEPT !.el[v] = small_buffer(v), !.cap[v] = N, !.sz[v] = 0]

\* reserve asking for one slot more than requested.
reserve_one_more(S, v, size, ok) == grow(S, v, size + 1, ok)

\* reserve growing by the doubling policy of append.
reserve_doubling(S, v, size, ok) == grow(S, v, Max(size, S.cap[v] * 2), ok)

reserve(S, v, size, ok) == grow(S, v, size, ok)

\* append(const T &) when move is FALSE, append(T &&) when it is TRUE; the
\* argument is an object outside the container holding x.
append(S, v, x, move, ok) ==
  LET S1 == ensure_space_for_one(S, v, ok)
      S2 == construct_at(S1, S1.el[v], S1.sz[v], x,
                         IF move THEN "moves" ELSE "copies")
  IN [S2 EXCEPT !.sz[v] = @ + 1]

RECURSIVE append_all(_, _, _, _, _)
append_all(S, v, values, move, i) ==
  IF i > Len(values) THEN S
  ELSE append_all(append(S, v, values[i], move, TRUE), v, values, move, i + 1)

\* extend whose loop stops one element short.
RECURSIVE extend_stops_early(_, _, _, _)
extend_stops_early(S, v, o, i) ==
  IF i >= S.sz[o] - 1 THEN S
  ELSE LET f == read_fault(S, S.el[o], i)
           S1 == IF f # "ok" THEN Fault(S, f) ELSE S
       IN extend_stops_early(append(S1, v, read_val(S, S.el[o], i), FALSE, TRUE),
                             v, o, i + 1)

\* extend(other) for another container: the range-for reads other's slots
\* one at a time, each through a reference passed to append.
RECURSIVE extend(_, _, _, _)
extend(S, v, o, i) ==
  IF i >= S.sz[o] THEN S
  ELSE LET f == read_fault(S, S.el[o], i)
           S1 == IF f # "ok" THEN Fault(S, f) ELSE S
       IN extend(append(S1, v, read_val(S, S.el[o], i), FALSE, TRUE), v, o, i + 1)

\* What reading the T at p + i does when p was taken from v before the
\* call: once v has grown, p points into storage that grow has destructed,
\* and released when it was a heap region.
ref_fault(S, v, p, i) ==
  IF p > 0 /\ S.el[v] # p THEN "use_after_free" ELSE read_fault(S, p, i)

\* std::uninitialized_copy(&value, &value + 1, this->end()); m_size++; with
\* value bound to the element at p + i.  junk is what a faulty read yields.
copy_ref_to_end(S, v, p, i, junk) ==
  LET f == ref_fault(S, v, p, i)
      x == IF f = "ok" THEN read_val(S, p, i) ELSE junk
  IN [construct_at(IF f # "ok" THEN Fault(S, f) ELSE S,
                   S.el[v], S.sz[v], x, "copies")
        EXCEPT !.sz[v] = @ + 1]

\* append(const T &value) with value bound to the element at p + i of v's own
\* storage, as in v.append(v[i]).  The reference is read after
\* ensure_space_for_one.
append_ref(S, v, p, i, junk) ==
  copy_ref_to_end(ensure_space_for_one(S, v, TRUE), v, p, i, junk)

\* v.extend(v): the range-for takes begin() = p and end() = p + n once, before
\* the first append, and passes a reference to p + i to each append.
RECURSIVE extend_self(_, _, _, _, _, _)
extend_self(S, v, p, n, i, junk) ==
  IF i >= n THEN S
  ELSE CHOOSE R \in {extend_self(T, v, p, n, i + 1, junk) :
                       T \in {append_ref(S, v, p, i, junk)}} : TRUE

RECURSIVE fill(_, _, _, _)
fill(S, v, value, i) ==
  IF i >= S.sz[v] THEN S
  ELSE fill(assign_at(S, S.el[v], i, value), v, value, i + 1)

remove_last(S, v) ==
  LET S1 == destruct_element(S, v, S.sz[v] - 1)
  IN [S1 EXCEPT !.sz[v] = @ - 1]

\* std::copy through move iterators: *dst = std::move(*src).
move_assign(S, src, dst) ==
  LET f == read_fault(S, S.el[dst.v], src)
      S0 == IF f # "ok" THEN Fault(S, f) ELSE S
      S1 == assign_at(S0, S.el[dst.v], dst.i, read_val(S, S.el[dst.v], src))
  IN IF f = "ok" THEN store(S1, S.el[dst.v], src, MovedFrom) ELSE S1

\* remove_and_reorder without the move of the last element.
remove_and_reorder_no_move(S, v, index) ==
  LET S2 == destruct_element(S, v, S.sz[v] - 1)
  IN [S2 EXCEPT !.sz[v] = @ - 1]

remove_and_reorder(S, v, index) ==
  LET S1 == IF index < ToUint(S.sz[v] - 1)
            THEN move_assign(S, S.sz[v] - 1, [v |-> v, i |-> index])
            ELSE S
      S2 == destruct_element(S1, v, S.sz[v] - 1)
  IN [S2 EXCEPT !.sz[v] = @ - 1]

\* remove_last() from its first statement, the assertion.
remove_last_call(S, v) ==
  LET S1 == BLI_assert(S, ~empty(S, v), "BLI_assert in remove_last")
  IN IF Aborted(S1) THEN S1 ELSE remove_last(S1, v)

\* remove_and_reorder(uint index) from its first statement, the assertion.
remove_and_reorder_call(S, v, index) ==
  LET S1 == BLI_assert(S, is_index_in_range(S, v, index),
                       "BLI_assert in remove_and_reorder")
  IN IF Aborted(S1) THEN S1 ELSE remove_and_reorder(S1, v, index)

\* operator[](const int index): the assertion, then the element read through
\* the returned reference.
subscript(S, v, index) ==
  LET S1 == BLI_assert(S, is_index_in_range(S, v, ToUint(index)),
                       "BLI_assert in operator[]")
      f == read_fault(S1, S1.el[v], index)
  IN IF Aborted(S1) THEN S1
     ELSE IF f # "ok" THEN Fault(S1, f) ELSE S1

\* index(const T &value) from position i of its loop: the memory record
\* (with the fault of a bad read), the value returned and the positions whose
\* element the loop has compared.  (index names a parameter in this module, so
\* the function is index_of here.)
RECURSIVE index_from(_, _, _, _, _)
index_from(S, v, value, i, seen) ==
  IF ~(i < S.sz[v]) THEN [S |-> S, ret |-> -1, seen |-> seen]
  ELSE LET f == read_fault(S, S.el[v], i)
       IN IF f # "ok" THEN [S |-> Fault(S, f), ret |-> -1, seen |-> seen \cup {i}]
          ELSE IF read_val(S, S.el[v], i) = value
               THEN [S |-> S, ret |-> i, seen |-> seen \cup {i}]
               ELSE index_from(S, v, value, i + 1, seen \cup {i})

\* index returning the last position that holds value.
index_of_last(S, v, value) ==
  LET r == index_from(S, v, value, 0, {})
      hits == {i \in 0..(S.sz[v] - 1) : read_val(S, S.el[v], i) = value}
  IN IF hits = {} THEN r
     ELSE [r EXCEPT !.ret = CHOOSE i \in hits : \A j \in hits : j <= i]

index_of(S, v, value) == index_from(S, v, value, 0, {})

\* ~SmallVector()
destructor(S, v) ==
  IF S.el[v] # Null THEN destruct_elements_and_free_memory(S, v) ELSE S

\* The object's own storage ends with the object: a T still constructed in
\* the inline buffer is never destructed.
end_of_lifetime(S, v) ==
  LET S1 == IF Constructed(S.sb[v]) # {} THEN Fault(S, "leak") ELSE S
  IN [S1 EXCEPT !.sb[v] = RawSlots(N), !.el[v] = Null, !.sz[v] = 0, !.cap[v] = 0]

\* The live elements of v in order: what operator[] returns for 0..size()-1.
Contents(v) ==
  [i \in 1..m_size[v] |-> read_val(Cur, m_elements[v], i - 1)]

\* The same of v after the step, for a v that the step itself names.
ContentsAfter(v) ==
  [i \in 1..m_size'[v] |-> read_val(Cur', m_elements'[v], i - 1)]

----------------------------------------------------------------------------
\* Operations

\* Faults on which the process may stop.
CrashFaults ==
  {"null_deref", "use_after_free", "out_of_bounds", "double_free", "free_non_heap"}

\* Element constructions and destructions of S since the memory record B.
Since(S, B) == (S.ev.moves - B.ev.moves) + (S.ev.copies - B.ev.copies)
               + (S.ev.dtors - B.ev.dtors)

\* The operation leaves memory S and the containers al alive.
Commit(S, al) ==
  /\ WithinBounds(S)
  /\ alive' = al
  /\ m_elements' = S.el
  /\ m_size' = S.sz
  /\ m_capacity' = S.cap
  /\ m_small_buffer' = S.sb
  /\ heap' = S.hp
  /\ faults' = S.errs
  /\ crashed' \in (IF Aborted(S) THEN {TRUE}
                  ELSE IF S.errs \cap CrashFaults # {} THEN BOOLEAN ELSE {FALSE})
  /\ watch' = watch

\* The record of a call of op on v with argument arg returning ret, kept when
\* op is the watched function.
NoCall == [op |-> "none", v |-> 0, arg |-> 0, ret |-> 0]

Rec(op, v, arg, ret) ==
  IF watch = op THEN [op |-> op, v |-> v, arg |-> arg, ret |-> ret] ELSE NoCall

\* The record of a call that makes the one call grow(min_capacity) on v: when
\* grow is the watched function, the call of grow if it grows; otherwise the
\* record other of the calling function.
GrowCall(v, min_capacity, other) ==
  IF watch # "grow" THEN other
  ELSE IF min_capacity > m_capacity[v] THEN Rec("grow", v, min_capacity, 0)
  ELSE NoCall

\* A container that may be read or mutated: alive and not moved from.
Usable(v) == alive[v] /\ m_elements[v] # Null

\* The record of the calls made on a container since its construction:
\*   only   it was default-constructed and then only appended to,
\*   vals   the values appended to it, in order, while only holds,
\*   inl    it was constructed with at most N elements and has since seen only
\*          appends up to length N, removals and reserve(size <= N),
\*   alloc  inl holds and yet a call on it has called std::malloc,
\*   src    the container it was copied from, neither having been assigned,
\*          moved or destroyed since, nor the source mutated; else 0.
Fresh == [only |-> FALSE, vals |-> <<>>, inl |-> FALSE, alloc |-> FALSE, src |-> 0]

\* Container v changes: nothing is a copy of it any more.
Touched(v) ==
  [w \in Vec |-> IF ghost[w].src = v THEN [ghost[w] EXCEPT !.src = 0] ELSE ghost[w]]

\* The record of v after a call on it that left memory S.
Called(S, v, only, vals, inl, src) ==
  [Touched(v) EXCEPT ![v] = [only |-> only, vals |-> vals, inl |-> inl,
                             alloc |-> inl /\ (ghost[v].alloc \/ S.ev.mallocs > 0),
                             src |-> src]]

Default(v) ==
  /\ ~crashed /\ ~alive[v]
  /\ call' = Rec("SmallVector", v, 0, 0)
  /\ \E S \in {construct_default(Cur, v)} :
       /\ Commit(S, [alive EXCEPT ![v] = TRUE])
       /\ ghost' = Called(S, v, TRUE, <<>>, TRUE, 0)

Sized(v, count) ==
  /\ ~crashed /\ ~alive[v]
  /\ call' = Rec("SmallVector", v, count, 0)
  /\ \E S \in {append_all(reserve(construct_default(Cur, v), v, count, TRUE),
                          v, [i \in 1..count |-> 0], TRUE, 1)} :
       /\ Commit(S, [alive EXCEPT ![v] = TRUE])
       /\ ghost' = Called(S, v, FALSE, <<>>, count <= N, 0)

FromSequence(v, values) ==
  /\ ~crashed /\ ~alive[v]
  /\ call' = Rec("SmallVector", v, Len(values), 0)
  /\ \E S \in {append_all(reserve(construct_default(Cur, v), v, Len(values), TRUE),
                          v, values, FALSE, 1)} :
       /\ Commit(S, [alive EXCEPT ![v] = TRUE])
       /\ ghost' = Called(S, v, FALSE, <<>>, Len(values) <= N, 0)

\* The default member initialisers run before the constructor body.
member_init(S, v) == [S EXCEPT !.sz[v] = 0, !.cap[v] = N]

CopyConstruct(v, o) ==
  /\ ~crashed /\ ~alive[v] /\ Usable(o)
  /\ call' = Rec("SmallVector", v, o, 0)
  /\ \E S \in {copy_from_other(member_init(Cur, v), v, o, TRUE)} :
       /\ Commit(S, [alive EXCEPT ![v] = TRUE])
       /\ ghost' = Called(S, v, FALSE, <<>>, FALSE, o)

\* The record of the source of a move.
MovedOut(g, o) == [g EXCEPT ![o] = Fresh]

MoveConstruct(v, o) ==
  /\ ~crashed /\ ~alive[v] /\ Usable(o)
  /\ call' = Rec("SmallVector", v, o, 0)
  /\ \E S \in {steal_from_other(member_init(Cur, v), v, o)} :
       /\ Commit(S, [alive EXCEPT ![v] = TRUE])
       /\ ghost' = MovedOut([Touched(o) EXCEPT ![v] = Fresh], o)

Destroy(v) ==
  /\ ~crashed /\ alive[v]
  /\ call' = Rec("~SmallVector", v, 0, 0)
  /\ \E S \in {end_of_lifetime(destructor(Cur, v), v)} :
       /\ Commit(S, [alive EXCEPT ![v] = FALSE])
       /\ ghost' = [Touched(v) EXCEPT ![v] = Fresh]

\* operator=(const SmallVector &), self-assignment included.
CopyAssign(v, o) ==
  /\ ~crashed /\ alive[v] /\ (v = o \/ Usable(o))
  /\ call' = Rec("operator=(const SmallVector &)", v, o, 0)
  /\ \E S \in {IF v = o THEN Cur
              ELSE copy_from_other(destruct_elements_and_free_memory(Cur, v), v, o, TRUE)} :
       /\ Commit(S, alive)
       /\ ghost' = IF v = o THEN ghost ELSE Called(S, v, FALSE, <<>>, FALSE, o)

\* operator=(SmallVector &&) from another container.
MoveAssign(v, o) ==
  /\ ~crashed /\ alive[v] /\ v # o /\ Usable(o)
  /\ call' = Rec("operator=(SmallVector &&)", v, o, 0)
  /\ \E S \in {steal_from_other(destruct_elements_and_free_memory(Cur, v), v, o)} :
       /\ Commit(S, alive)
       /\ ghost' = MovedOut([w \in Vec |-> [Called(S, v, FALSE, <<>>, FALSE, 0)[w]
                                             EXCEPT !.src = 0]], o)

\* v = std::move(v): operator=(SmallVector &&) has no test for this == &other.
MoveAssignSelf(v) ==
  /\ ~crashed /\ Usable(v)
  /\ call' = Rec("operator=(SmallVector &&)", v, v, 0)
  /\ \E S \in {steal_from_other(destruct_elements_and_free_memory(Cur, v), v, v)} :
       /\ Commit(S, alive)
       /\ ghost' = MovedOut(Touched(v), v)

\* Of the calls of reserve, those that grow are the ones recorded.
Reserve(v, size) ==
  /\ ~crashed /\ Usable(v)
  /\ call' = GrowCall(v, size, IF size > m_capacity[v]
                                THEN Rec("reserve", v, size, 0) ELSE NoCall)
  /\ \E S \in {reserve(Cur, v, size, TRUE)} :
       /\ Commit(S, alive)
       /\ ghost' = Called(S, v, FALSE, <<>>, ghost[v].inl /\ size <= N, ghost[v].src)

\* append(const T &)
AppendCopy(v, x) ==
  /\ ~crashed /\ Usable(v)
  /\ call' = GrowCall(v, IF m_size[v] >= m_capacity[v]
                         THEN Max(m_capacity[v] * 2, 1) ELSE 0,
                      Rec("append", v, x, 0))
  /\ \E S \in {append(Cur, v, x, FALSE, TRUE)} :
       /\ Commit(S, alive)
       /\ ghost' = Called(S, v, ghost[v].only,
                          IF ghost[v].only THEN Append(ghost[v].vals, x) ELSE <<>>,
                          ghost[v].inl /\ m_size[v] + 1 <= N, ghost[v].src)

\* append(T &&)
AppendMove(v, x) ==
  /\ ~crashed /\ Usable(v)
  /\ call' = GrowCall(v, IF m_size[v] >= m_capacity[v]
                         THEN Max(m_capacity[v] * 2, 1) ELSE 0,
                      Rec("append", v, x, 0))
  /\ \E S \in {append(Cur, v, x, TRUE, TRUE)} :
       /\ Commit(S, alive)
       /\ ghost' = Called(S, v, ghost[v].only,
                          IF ghost[v].only THEN Append(ghost[v].vals, x) ELSE <<>>,
                          ghost[v].inl /\ m_size[v] + 1 <= N, ghost[v].src)

Extend(v, o) ==
  /\ ~crashed /\ v # o /\ Usable(v) /\ Usable(o)
  /\ call' = Rec("extend", v, o, 0)
  /\ \E S \in {extend(Cur, v, o, 0)} :
       /\ Commit(S, alive)
       /\ ghost' = Called(S, v, FALSE, <<>>, FALSE, ghost[v].src)

Fill(v, value) ==
  /\ ~crashed /\ Usable(v)
  /\ call' = Rec("fill", v, value, 0)
  /\ \E S \in {fill(Cur, v, value, 0)} :
       /\ Commit(S, alive)
       /\ ghost' = Called(S, v, FALSE, <<>>, FALSE, ghost[v].src)

RemoveLast(v) ==
  /\ ~crashed /\ Usable(v) /\ m_size[v] > 0
  /\ call' = Rec("remove_last", v, 0, 0)
  /\ \E S \in {remove_last(Cur, v)} :
       /\ Commit(S, alive)
       /\ ghost' = Called(S, v, FALSE, <<>>, ghost[v].inl, ghost[v].src)

RemoveAndReorder(v, index) ==
  /\ ~crashed /\ Usable(v) /\ index < m_size[v]
  /\ call' = Rec("remove_and_reorder", v, index, 0)
  /\ \E S \in {remove_and_reorder(Cur, v, index)} :
       /\ Commit(S, alive)
       /\ ghost' = Called(S, v, FALSE, <<>>, ghost[v].inl, ghost[v].src)

\* The same calls when std::malloc returns NULL.
AppendNoMem(v, x) ==
  /\ ~crashed /\ Usable(v) /\ m_size[v] >= m_capacity[v]
  /\ call' = Rec("append", v, x, 0)
  /\ \E S \in {append(Cur, v, x, FALSE, FALSE)} :
       /\ Commit(S, alive)
       /\ ghost' = Called(S, v, FALSE, <<>>, FALSE, 0)

ReserveNoMem(v, size) ==
  /\ ~crashed /\ Usable(v) /\ size > m_capacity[v]
  /\ call' = Rec("reserve", v, size, 0)
  /\ \E S \in {reserve(Cur, v, size, FALSE)} :
       /\ Commit(S, alive)
       /\ ghost' = Called(S, v, FALSE, <<>>, FALSE, 0)

\* The calls that check a precondition, for every argument.
RemoveLastCall(v) ==
  /\ ~crashed /\ Usable(v)
  /\ call' = Rec("remove_last", v, 0, 0)
  /\ \E S \in {remove_last_call(Cur, v)} :
       /\ Commit(S, alive)
       /\ ghost' = IF Aborted(S) THEN ghost
                   ELSE Called(S, v, FALSE, <<>>, ghost[v].inl, ghost[v].src)

RemoveAndReorderCall(v, index) ==
  /\ ~crashed /\ Usable(v)
  /\ call' = Rec("remove_and_reorder", v, index, 0)
  /\ \E S \in {remove_and_reorder_call(Cur, v, index)} :
       /\ Commit(S, alive)
       /\ ghost' = IF Aborted(S) THEN ghost
                   ELSE Called(S, v, FALSE, <<>>, ghost[v].inl, ghost[v].src)

\* v[index], read.
Subscript(v, index) ==
  /\ ~crashed /\ Usable(v)
  /\ \E S \in {subscript(Cur, v, index)} :
       /\ call' = Rec("operator[]", v, index,
                      IF S.errs = {} THEN read_val(S, S.el[v], index) ELSE 0)
       /\ Commit(S, alive)
       /\ ghost' = ghost

\* v.append(v[index]) for an index in range.
AppendElement(v, index) ==
  /\ ~crashed /\ Usable(v) /\ index < m_size[v]
  /\ call' = Rec("append", v, read_val(Cur, m_elements[v], index), 0)
  /\ \E junk \in Val :
     \E S \in {append_ref(Cur, v, m_elements[v], index, junk)} :
       /\ Commit(S, alive)
       /\ ghost' = Called(S, v, FALSE, <<>>, FALSE, ghost[v].src)

\* v.extend(v)
ExtendSelf(v) ==
  /\ ~crashed /\ Usable(v)
  /\ call' = Rec("extend", v, v, 0)
  /\ \E junk \in Val :
     \E S \in {extend_self(Cur, v, m_elements[v], m_size[v], 0, junk)} :
       /\ Commit(S, alive)
       /\ ghost' = Called(S, v, FALSE, <<>>, FALSE, ghost[v].src)

\* v.index(value)
Index(v, value) ==
  /\ ~crashed /\ Usable(v)
  /\ \E r \in {index_of(Cur, v, value)} :
       /\ call' = Rec("index", v, value, r.ret)
       /\ Commit(r.S, alive)
       /\ ghost' = ghost

InitLists == UNION {[1..n -> Val] : n \in 0..MaxInit}

\* No object constructed yet; op is the member function to record the calls of.
Start(op) ==
  /\ alive = [v \in Vec |-> FALSE]
  /\ m_elements = [v \in Vec |-> Null]
  /\ m_size = [v \in Vec |-> 0]
  /\ m_capacity = [v \in Vec |-> 0]
  /\ m_small_buffer = [v \in Vec |-> RawSlots(N)]
  /\ heap = [r \in Region |-> FreeRegion]
  /\ faults = {}
  /\ crashed = FALSE
  /\ ghost = [v \in Vec |-> Fresh]
  /\ watch = op
  /\ call = NoCall

Init == Start("none")

Next ==
  \/ \E v \in Vec : Default(v)
  \/ \E v \in Vec, count \in 0..MaxElems : Sized(v, count)
  \/ \E v \in Vec, values \in InitLists : FromSequence(v, values)
  \/ \E v, o \in Vec : CopyConstruct(v, o)
  \/ \E v, o \in Vec : MoveConstruct(v, o)
  \/ \E v \in Vec : Destroy(v)
  \/ \E v, o \in Vec : CopyAssign(v, o)
  \/ \E v, o \in Vec : MoveAssign(v, o)
  \/ \E v \in Vec, size \in 0..MaxReserve : Reserve(v, size)
  \/ \E v \in Vec, x \in Val : AppendCopy(v, x)
  \/ \E v \in Vec, x \in Val : AppendMove(v, x)
  \/ \E v, o \in Vec : Extend(v, o)
  \/ \E v \in Vec, value \in Val : Fill(v, value)
  \/ \E v \in Vec : RemoveLast(v)
  \/ \E v \in Vec, index \in 0..(MaxElems - 1) : RemoveAndReorder(v, index)

Spec == Init /\ [][Next]_vars

\* The program when std::malloc can fail.
NextNoMem ==
  \/ Next
  \/ \E v \in Vec, x \in Val : AppendNoMem(v, x)
  \/ \E v \in Vec, size \in 0..MaxReserve : ReserveNoMem(v, size)

SpecNoMem == Init /\ [][NextNoMem]_vars

\* The program when callers also break the preconditions.
NextMisuse ==
  \/ Next
  \/ \E v \in Vec : RemoveLastCall(v)
  \/ \E v \in Vec, index \in 0..MaxElems : RemoveAndReorderCall(v, index)
  \/ \E v \in Vec, index \in (-1)..MaxElems : Subscript(v, index)

SpecMisuse == Init /\ [][NextMisuse]_vars

\* The program with a container passed to its own append and extend as well.
NextAlias ==
  \/ Next
  \/ \E v \in Vec, index \in 0..(MaxElems - 1) : AppendElement(v, index)
  \/ \E v \in Vec : ExtendSelf(v)

SpecAlias == Init /\ [][NextAlias]_vars

\* The program with move self-assignment as well, and the move assignments
\* recorded.
NextOwn ==
  \/ Next
  \/ \E v \in Vec : MoveAssignSelf(v)

SpecOwn == Start("operator=(SmallVector &&)") /\ [][NextOwn]_vars

\* The program with index called as well, and its calls recorded.
NextIndex ==
  \/ Next
  \/ \E v \in Vec, value \in Val : Index(v, value)

SpecIndex == Start("index") /\ [][NextIndex]_vars

\* The program with the calls of one member function recorded.
SpecReorder == Start("remove_and_reorder") /\ [][Next]_vars
SpecReserve == Start("reserve") /\ [][Next]_vars
SpecExtend == Start("extend") /\ [][Next]_vars
SpecGrow == Start("grow") /\ [][Next]_vars

----------------------------------------------------------------------------
\* Kinds of step, for the properties below

\* A call of a mutator on v: append, extend, reserve, fill, remove_last,
\* remove_and_reorder.  A mutator ends no lifetime and writes no member of
\* another container; the first conjunct tests that before the calls.
Mutates(v) ==
  /\ alive' = alive
  /\ \A w \in Vec \ {v} : /\ m_elements'[w] = m_elements[w]
                           /\ m_size'[w] = m_size[w]
                           /\ m_capacity'[w] = m_capacity[w]
  /\ \/ \E x \in Val : AppendCopy(v, x) \/ AppendMove(v, x)
     \/ \E o \in Vec : Extend(v, o)
     \/ \E size \in 0..MaxReserve : Reserve(v, size)
     \/ \E value \in Val : Fill(v, value)
     \/ RemoveLast(v)
     \/ \E index \in 0..(MaxElems - 1) : RemoveAndReorder(v, index)

\* A copy into b records a as the source of b, and a move out of a leaves a
\* with a null data pointer (steal_from_other's last statement).  The step
\* predicates below test that first, which spares evaluating the call on the
\* steps that cannot be one.
CopyConstructed(b, a) == ghost'[b].src = a /\ CopyConstruct(b, a)
CopyAssigned(b, a) == ghost'[b].src = a /\ CopyAssign(b, a)
MoveConstructed(b, a) == m_elements'[a] = Null /\ MoveConstruct(b, a)
MoveAssigned(b, a) == m_elements'[a] = Null /\ MoveAssign(b, a)

\* v = o or v = std::move(o) for another container o.
AssignedFrom(v, o) == v # o /\ (CopyAssigned(v, o) \/ MoveAssigned(v, o))

\* b is constructed or assigned as a copy of, or by a move from, a.
CopiedFrom(b, a) == a # b /\ (CopyConstructed(b, a) \/ CopyAssigned(b, a))
MovedInto(b, a) == a # b /\ (MoveConstructed(b, a) \/ MoveAssigned(b, a))

IsHeap(v) == m_elements[v] > 0

AllRaw(slots) == \A i \in DOMAIN slots : slots[i].st = "raw"

\* "the step is an A step => P" is written P \/ ~A where P is a plain
\* comparison, so that the step is identified only when P fails.

----------------------------------------------------------------------------
\* C1.  Destructor accounting: once every container has been destroyed, each
\* element construction has been matched by exactly one destruction: the
\* last destructor left no constructed element behind (in an inline buffer
\* or a heap region), destructed nothing unconstructed, and no heap region
\* is still allocated.
AccountingFaults ==
  {"leak", "destruct_unconstructed", "construct_over_constructed", "null_deref"}

C1_DestructorAccounting ==
  (\A v \in Vec : ~alive[v]) =>
     /\ faults \cap AccountingFaults = {}
     /\ \A v \in Vec : AllRaw(m_small_buffer[v])
     /\ \A r \in Region : ~heap[r].alloc

\* C2.  After a move the source is empty (size() == 0), and destroying it or
\* assigning to it raises no fault (no destructor run on null storage, no
\* construction over an element left behind) and leaves it holding exactly
\* the assigned value.
C2_MovedFromIsEmptyAndSafe ==
  [][\A a \in Vec :
       /\ (\E b \in Vec : MovedInto(b, a)) => m_size'[a] = 0
       /\ (alive[a] /\ m_elements[a] = Null) =>
            /\ Destroy(a) => faults' = {}
            /\ \A c \in Vec : AssignedFrom(a, c) => faults' = {}
            /\ \A c \in Vec : a # c /\ CopyAssigned(a, c) => Contents(a)' = Contents(c)
    ]_vars

\* C3 as stated.  No operation on a container that stays alive lowers its
\* capacity: mutators, copy assignment and move assignment alike.
C3_CapacityNeverDecreases ==
  [][\A v \in Vec :
       \/ m_capacity'[v] >= m_capacity[v]
       \/ ~(Mutates(v) \/ \E o \in Vec : AssignedFrom(v, o))
    ]_vars

\* C3 as amended.  No mutator (append, extend, reserve, fill, remove_last,
\* remove_and_reorder) lowers the capacity; copy and move assignment set the
\* capacity to the capacity of the source, larger or smaller.
C3_CapacityUnderMutatorsAndAssignment ==
  [][\A v \in Vec :
       /\ m_capacity'[v] >= m_capacity[v] \/ ~Mutates(v)
       /\ \A o \in Vec : m_capacity'[v] = m_capacity[o] \/ ~AssignedFrom(v, o)
    ]_vars

\* C3 witness: a container that grew twice and was then emptied keeps the
\* grown capacity.
C3_Witness ==
  \E v \in Vec : Usable(v) /\ m_capacity[v] = 4 * N /\ m_size[v] = 0

\* C4.  A call of append or reserve whose allocation fails leaves the
\* container as it was: length, capacity, data pointer, the inline buffers
\* and the heap are unchanged.
C4_FailedAllocationKeepsState ==
  [][(\E v \in Vec :
        \/ \E x \in Val : AppendNoMem(v, x)
        \/ \E size \in 0..MaxReserve : ReserveNoMem(v, size))
       => UNCHANGED <<m_elements, m_size, m_capacity, m_small_buffer, heap>>
    ]_vars

\* C5.  A container that was default-constructed and then only appended to
\* has as many elements as appends were made, and reads back the appended
\* values in order.
C5_AppendsReadBack ==
  \A v \in Vec :
    alive[v] /\ ghost[v].only =>
      /\ m_size[v] = Len(ghost[v].vals)
      /\ Contents(v) = ghost[v].vals

\* C5 witness: three appends of differing values that crossed the inline
\* threshold and grew the storage twice.
C5_Witness ==
  \E v \in Vec :
    /\ alive[v] /\ ghost[v].only
    /\ ghost[v].vals = <<1, 0, 1>>
    /\ m_capacity[v] = 4 * N

\* C6.  Every container within its lifetime has capacity >= max(N, length)
\* and length >= 0.
C6_CapacityBounds ==
  \A v \in Vec :
    alive[v] => m_capacity[v] >= N /\ m_capacity[v] >= m_size[v] /\ m_size[v] >= 0

\* C6 witness: a container filled to a capacity above N.
C6_Witness ==
  \E v \in Vec : Usable(v) /\ m_size[v] = m_capacity[v] /\ m_capacity[v] > N

\* C7 as stated.  No operation on a heap-mode container (a mutator, a copy
\* assignment, a move assignment) leaves it with storage other than a heap
\* region.
C7_HeapModeIsPermanent ==
  [][\A v \in Vec :
       IsHeap(v) =>
         \/ IsHeap(v)'
         \/ ~(Mutates(v) \/ \E o \in Vec : AssignedFrom(v, o))
    ]_vars

\* C7 as amended.  A heap-mode container stays heap-mode under every
\* mutator, and under copy or move assignment from a heap-mode source; copy
\* or move assignment from an inline-mode source returns it to its own
\* inline buffer with capacity N.
C7_HeapModeUnderMutatorsAndAssignment ==
  [][\A v \in Vec :
       IsHeap(v) =>
         /\ IsHeap(v)' \/ ~Mutates(v)
         /\ \A o \in Vec :
              \/ IF IsHeap(o) THEN IsHeap(v)'
                 ELSE m_elements'[v] = small_buffer(v) /\ m_capacity'[v] = N
              \/ ~AssignedFrom(v, o)
    ]_vars

\* C7 witness: a heap-mode container whose length is back below N.
C7_Witness ==
  \E v \in Vec : alive[v] /\ IsHeap(v) /\ m_size[v] < N /\ m_capacity[v] = 2 * N

\* C8.  Move adoption: a move from a heap-mode container a into b gives b the
\* capacity of a, the very region a pointed to, with its slots untouched, and
\* a's elements in order; the transfer constructs and destructs no element.
MoveAdopts(b, a, before) ==
  /\ m_capacity'[b] = m_capacity[a]
  /\ m_elements'[b] = m_elements[a]
  /\ Contents(b)' = Contents(a)
  /\ heap'[m_elements[a]] = heap[m_elements[a]]
  /\ Since(steal_from_other(before, b, a), before) = 0

C8_MoveAdoption ==
  [][\A a, b \in Vec :
       a # b /\ IsHeap(a) =>
         /\ MoveAdopts(b, a, member_init(Cur, b)) \/ ~MoveConstructed(b, a)
         /\ \/ MoveAdopts(b, a, destruct_elements_and_free_memory(Cur, b))
            \/ ~MoveAssigned(b, a)
    ]_vars

\* C8 witness: b holds three elements in a heap region and a, still alive,
\* has a null data pointer and the capacity b now has.
C8_Witness ==
  \E a, b \in Vec :
    /\ alive[a] /\ m_elements[a] = Null
    /\ alive[b] /\ IsHeap(b) /\ m_size[b] = 3
    /\ m_capacity[a] = m_capacity[b] /\ m_size[a] = 3

\* C9.  Copy independence: a copy b of a holds a's elements in order in
\* storage of its own and leaves a as it was; while b remains that copy,
\* mutating or destroying b leaves a's length, elements and storage alone.
C9_CopyIndependence ==
  [][\A a, b \in Vec :
       /\ CopiedFrom(b, a) =>
            /\ Contents(b)' = Contents(a)
            /\ m_elements'[b] # m_elements'[a]
            /\ Contents(a)' = Contents(a) /\ m_elements'[a] = m_elements[a]
       /\ ghost[b].src = a =>
            \/ /\ m_size'[a] = m_size[a]
               /\ m_elements'[a] = m_elements[a]
               /\ Contents(a)' = Contents(a)
            \/ ~(Mutates(b) \/ Destroy(b))
    ]_vars

\* C9 witness: b was copied from a heap-mode a and has since been mutated
\* into something else.
C9_Witness ==
  \E a, b \in Vec :
    /\ ghost[b].src = a /\ IsHeap(a) /\ IsHeap(b)
    /\ m_size[a] > 0 /\ m_size[b] = m_size[a]
    /\ Contents(b) # Contents(a)

\* C10.  A container constructed with at most N elements, and since then
\* only appended to up to length N, removed from, or reserved for at most N,
\* uses its inline buffer, has capacity N, and has never called std::malloc.
C10_SmallStaysInline ==
  \A v \in Vec :
    alive[v] /\ ghost[v].inl =>
      /\ m_elements[v] = small_buffer(v)
      /\ m_capacity[v] = N
      /\ m_size[v] <= N
      /\ ~ghost[v].alloc

\* C10 witness: a container built from a sequence, full at N elements after
\* a removal and an append.
C10_Witness ==
  \E v \in Vec :
    /\ alive[v] /\ ghost[v].inl /\ ~ghost[v].only
    /\ m_size[v] = N /\ Contents(v) = [i \in 1..N |-> 1]

\* C11.  remove_and_reorder(i) with i in [0, length) on [x0..x(n-1)] leaves
\* length n-1 with x(n-1) at position i (when i < n-1) and xj at every other
\* position j < n-1; capacity and data pointer are unchanged.
C11_RemoveAndReorder ==
  [][call'.op = "remove_and_reorder" =>
       LET v == call'.v
           i == call'.arg
           n == m_size[v]
           old == Contents(v)
       IN /\ m_size'[v] = n - 1
          /\ ContentsAfter(v) = [j \in 1..(n - 1) |-> IF j = i + 1 THEN old[n] ELSE old[j]]
          /\ m_capacity'[v] = m_capacity[v]
          /\ m_elements'[v] = m_elements[v]
    ]_vars

\* C11 witness: remove_and_reorder(0) has just turned [x, 0, 1] into [1, 0].
C11_Witness ==
  /\ call.op = "remove_and_reorder" /\ call.arg = 0
  /\ m_size[call.v] = 2 /\ Contents(call.v) = <<1, 0>>

\* C12.  Growth doubling: an append on a container whose length equals its
\* capacity c sets the capacity to max(2 * c, 1), and an append with length
\* below capacity leaves the capacity unchanged; so a container that started
\* empty and was appended to k times has the capacity reached from N by
\* doubling until k fits.
Appends(v) ==
  /\ alive' = alive /\ m_size'[v] = m_size[v] + 1
  /\ \E x \in Val : AppendCopy(v, x) \/ AppendMove(v, x)

RECURSIVE Doubled(_, _)
Doubled(c, k) == IF k <= c THEN c ELSE Doubled(Max(2 * c, 1), k)

C12_GrowthDoubling ==
  [][\A v \in Vec :
       /\ \/ m_capacity'[v] = IF m_size[v] = m_capacity[v]
                               THEN Max(2 * m_capacity[v], 1)
                               ELSE m_capacity[v]
          \/ ~Appends(v)
       /\ alive'[v] /\ ghost'[v].only
            => m_capacity'[v] = Doubled(N, Len(ghost'[v].vals))
    ]_vars

\* C12 witness: 2N+1 appends from empty have doubled the capacity twice, to
\* 4N.
C12_Witness ==
  \E v \in Vec :
    /\ alive[v] /\ ghost[v].only /\ Len(ghost[v].vals) = 2 * N + 1
    /\ m_size[v] = 2 * N + 1 /\ m_capacity[v] = 4 * N /\ IsHeap(v)

FailsFast ==
  /\ crashed'
  /\ faults' \subseteq AssertFaults /\ faults' # {}
  /\ UNCHANGED <<alive, m_elements, m_size, m_capacity, m_small_buffer, heap>>

C15_FailFast ==
  [][\A v \in Vec :
       /\ m_size[v] = 0 => (FailsFast \/ ~RemoveLastCall(v))
       /\ \A index \in 0..MaxElems :
            index >= m_size[v] => (FailsFast \/ ~RemoveAndReorderCall(v, index))
       /\ \A index \in (-1)..MaxElems :
            (index < 0 \/ index >= m_size[v]) => (FailsFast \/ ~Subscript(v, index))
    ]_vars

\* C15 witness: the process has stopped in the assertion of remove_last,
\* called on a heap-mode container that was empty and still is.
C15_Witness ==
  /\ crashed /\ faults = {"BLI_assert in remove_last"}
  /\ \E v \in Vec : alive[v] /\ IsHeap(v) /\ m_size[v] = 0
  /\ \A v \in Vec : alive[v] =>
        m_size[v] = 0 \/ Contents(v) = [i \in 1..m_size[v] |-> 1]

\* C16: v.index(value) returns the smallest position below size() whose
\* element equals value, and -1 exactly when no element of v equals value; it
\* compares no element at or beyond size(), makes no faulty read, and leaves
\* the container and the memory as they were.
C16_IndexOf ==
  [][call'.op = "index" =>
       LET v == call'.v
           value == call'.arg
           old == Contents(v)
           hits == {i \in 0..(m_size[v] - 1) : old[i + 1] = value}
       IN /\ call'.ret = IF hits = {} THEN -1
                         ELSE CHOOSE i \in hits : \A j \in hits : i <= j
          /\ index_of(Cur, v, value).seen \subseteq 0..(m_size[v] - 1)
          /\ UNCHANGED <<alive, m_elements, m_size, m_capacity, m_small_buffer,
                         heap>>
          /\ faults' = {} /\ ~crashed'
  ]_vars

\* C16 witness: index(1) on <<0, 1, 1>> has returned 1, the first of the two
\* matches.
C16_Witness ==
  /\ call.op = "index" /\ call.arg = 1 /\ call.ret = 1
  /\ Contents(call.v) = <<0, 1, 1>>

\* C16 witness of the other case: index(1) on <<0, 0>> has returned -1.
C16_NotFound ==
  /\ call.op = "index" /\ call.arg = 1 /\ call.ret = -1
  /\ Contents(call.v) = <<0, 0>>

\* C17: v.append(v[i]) appends the value v[i] had before the call, and
\* v.extend(v) leaves v's previous elements followed by the same elements
\* again, neither reading a destructed or released slot.
C17_AliasingSafe ==
  [][\A v \in Vec :
       /\ \A index \in 0..(m_size[v] - 1) :
            \/ /\ faults' = {}
               /\ ContentsAfter(v) = Append(Contents(v), Contents(v)[index + 1])
            \/ ~AppendElement(v, index)
       /\ \/ /\ faults' = {}
             /\ ContentsAfter(v) = Contents(v) \o Contents(v)
          \/ ~ExtendSelf(v)
  ]_vars

\* C17, the part that holds of the code: when v has a free slot for every
\* element appended, no growth happens during the call and the aliased
\* appends read live elements.
C17_AliasingWithRoom ==
  [][\A v \in Vec :
       /\ \A index \in 0..(m_size[v] - 1) :
            m_size[v] < m_capacity[v] =>
              \/ /\ faults' = {}
                 /\ ContentsAfter(v) = Append(Contents(v), Contents(v)[index + 1])
              \/ ~AppendElement(v, index)
       /\ 2 * m_size[v] <= m_capacity[v] =>
              \/ /\ faults' = {}
                 /\ ContentsAfter(v) = Contents(v) \o Contents(v)
              \/ ~ExtendSelf(v)
  ]_vars

\* The containers whose data pointer is heap region r.
Owners(r) == {v \in Vec : alive[v] /\ m_elements[v] = r}

\* C18: every allocated heap region is the data pointer of exactly one
\* container (so of at most one, and none is left allocated once all
\* containers are destroyed), no container points to a released region, and
\* no operation, self-assignment included, has released a region twice or
\* released something that is not a heap region.
C18_ExclusiveHeapOwnership ==
  /\ \A r \in Region : heap[r].alloc => Cardinality(Owners(r)) = 1
  /\ \A v \in Vec : alive[v] /\ m_elements[v] > 0 => heap[m_elements[v]].alloc
  /\ faults \cap {"double_free", "free_non_heap", "use_after_free"} = {}

\* C18 witness: a heap-mode container has been move-assigned to itself; its
\* region has been released and it points to nothing, while the other
\* container owns a region of its own.
C18_Witness ==
  /\ call.op = "operator=(SmallVector &&)" /\ call.v = call.arg
  /\ m_elements[call.v] = Null /\ m_capacity[call.v] > N
  /\ \E o \in Vec : /\ Owners(m_elements[o]) = {o} /\ IsHeap(o)
                    /\ \A r \in Region : heap[r].alloc <=> r = m_elements[o]

\* Slots [0, m_size) of the storage v points to hold live elements and slots
\* [m_size, m_capacity) are uninitialized; a v that points to no storage has
\* no slot to speak of and no element.
SlotsAsLength(v) ==
  LET slots == Storage(Cur, m_elements[v])
  IN IF m_elements[v] = Null THEN m_size[v] = 0
     ELSE /\ m_size[v] <= m_capacity[v] /\ m_capacity[v] <= Len(slots)
          /\ \A i \in 1..m_capacity[v] :
               slots[i].st = IF i <= m_size[v] THEN "live" ELSE "raw"

SlotFaults ==
  {"construct_over_constructed", "read_unconstructed", "assign_to_unconstructed",
   "destruct_unconstructed"}

\* C19: in every state, for every container, exactly the slots [0, size())
\* of its storage hold live elements and the slots [size(), capacity) are
\* uninitialized; and the last operation constructed into no live slot and
\* read, assigned to or destructed no uninitialized slot.
C19_SlotLiveness ==
  /\ \A v \in Vec : alive[v] => SlotsAsLength(v)
  /\ faults \cap SlotFaults = {}

\* v is not constructed, or it has storage, its slots are as its length
\* says, and in heap mode its inline buffer holds no element.
Sound(v) ==
  alive[v] => /\ m_elements[v] # Null
              /\ SlotsAsLength(v)
              /\ IsHeap(v) => AllRaw(m_small_buffer[v])

\* C19, the part that holds of the code: a container that is sound before a
\* step is sound after it, unless the step moves from it; and a step from a
\* state in which every container is sound raises no slot fault.
C19_SlotLivenessPreserved ==
  [][/\ \A v \in Vec : Sound(v) /\ (alive'[v] => m_elements'[v] # Null) => Sound(v)'
     /\ (\A v \in Vec : Sound(v)) => faults' \cap SlotFaults = {}
  ]_vars

\* The log of a growth of n elements from storage old into region new of c
\* slots: allocate; move-construct element 0, 1, ... into the same index of
\* new; then destruct the old elements 0, 1, ...; then release old when it is
\* a heap region.
RECURSIVE Relocations(_, _, _, _)
Relocations(old, new, n, i) ==
  IF i >= n THEN <<>>
  ELSE <<(<<"moves", new, i>>), (<<"moved_from", old, i>>)>>
         \o Relocations(old, new, n, i + 1)

Destructions(old, n) == [i \in 1..n |-> <<"dtors", old, i - 1>>]

BuildNewThenSwap(old, new, n, c) ==
  <<(<<"mallocs", new, c>>)>> \o Relocations(old, new, n, 0)
    \o Destructions(old, n)
    \o (IF old > 0 THEN <<(<<"frees", old, 0>>)>> ELSE <<>>)

\* C20: a call of grow that grows (from reserve or from append) allocates the
\* new region, move-constructs every element in index order into the same
\* index of it, only then destructs the old elements, releases the old
\* storage if and only if it is a heap region, and ends with the new region
\* as data pointer: the old pointer is the one every relocation, destruction
\* and the release went through.
C20_GrowthOrdering ==
  [][call'.op = "grow" =>
       LET v == call'.v
           c == call'.arg
           n == m_size[v]
           old == m_elements[v]
           new == m_elements'[v]
           G == grow(Cur, v, c, TRUE)
       IN /\ new > 0 /\ new # old /\ ~heap[new].alloc
          /\ G.log = BuildNewThenSwap(old, new, n, c)
          /\ G.el = m_elements'
          /\ \A r \in Region \ {new} : heap'[r] = G.hp[r]
          /\ SubSeq(heap'[new].slots, 1, n) = SubSeq(G.hp[new].slots, 1, n)
          /\ old > 0 => ~heap'[old].alloc
          /\ old < 0 => /\ heap'[new].alloc
                        /\ \A i \in 1..n : m_small_buffer'[v][i].st = "raw"
          /\ faults' = {}
  ]_vars

\* C20 witness: a heap-mode container of two elements in region 1 has grown
\* into region 2 through append, and region 1 has been released.
C20_Witness ==
  /\ call.op = "grow" /\ call.arg = 4
  /\ m_size[call.v] = 3 /\ SubSeq(Contents(call.v), 1, 2) = <<0, 1>>
  /\ m_elements[call.v] = 2 /\ ~heap[1].alloc /\ m_capacity[call.v] = 4

\* C20 witness of the other case: a container has grown out of its inline
\* buffer, which is left uninitialized and is not released.
C20_FromInline ==
  /\ call.op = "grow" /\ m_size[call.v] = N + 1 /\ m_capacity[call.v] = 2 * N
  /\ IsHeap(call.v) /\ AllRaw(m_small_buffer[call.v])

====
